---- MODULE Spec2Model ----
(***************************************************************************)
(* SWIFT/BIC code store: the SQL repository (internal/repositories) and    *)
(* the orchestration service (internal/services) that sits on top of it.   *)
(*                                                                         *)
(* Strings the code slices or pattern-matches (swift codes, bases, country *)
(* codes) are sequences of one-character strings; the table is a bag of    *)
(* rows, since the schema declares no key; a Go error is the sequence of   *)
(* its Unwrap chain, outermost first, and nil is the empty sequence.       *)
(***************************************************************************)
EXTENDS Integers, Sequences, FiniteSets, Bags, TLC

VARIABLES
    store,      \* the swift_banks table: a bag of rows
    call,       \* the operation last invoked and its arguments
    ret,        \* what that operation returned: [err, panicked, value]
    stmts,      \* the SQL statements it sent to the store, in order
    repoCalls,  \* the Repository calls it made (service operations), in order
    faults,     \* whether the store may fail a statement in this run
    callers     \* the Repository calls of concurrent callers, each with the
                \* statement it is at; none when calls come one after the other

vars == <<store, call, ret, stmts, repoCalls, faults, callers>>

----------------------------------------------------------------------------
(* Bounds of the model *)

\* rows the table may hold before a further insert is not explored
MaxRows == 3
\* entities in one CreateBatch call
MaxBatch == 2
\* entities in one large batch
MaxLoad == 201
\* records in one batch handed to the parser
MaxRecords == 3
\* rows the table may hold after a large batch
MaxStored == 202
\* lines after the header in a file handed to the reader
MaxDataLines == 2
\* callers that have a Repository call in flight at the same time
MaxCallers == 4

----------------------------------------------------------------------------
(* Characters and strings *)

Lower == <<"a","b","c","d","e","f","g","h","i","j","k","l","m",
           "n","o","p","q","r","s","t","u","v","w","x","y","z">>
Upper == <<"A","B","C","D","E","F","G","H","I","J","K","L","M",
           "N","O","P","Q","R","S","T","U","V","W","X","Y","Z">>
Digits == {"0","1","2","3","4","5","6","7","8","9"}

\* the white space a field of the input file may hold
WhiteSpace == {" ", "\t"}

Chars ==
    {Lower[i] : i \in 1..Len(Lower)} \cup {Upper[i] : i \in 1..Len(Upper)} \cup Digits
        \cup WhiteSpace

UpperSet == {Upper[i] : i \in 1..Len(Upper)}

\* unicode.ToUpper on the characters of the model
UpperOf ==
    [c \in Chars |->
        IF \E i \in 1..Len(Lower) : Lower[i] = c
        THEN Upper[CHOOSE i \in 1..Len(Lower) : Lower[i] = c]
        ELSE c]

IsUpperChar(c) == c \in UpperSet

ToUpperChar(c) == UpperOf[c]

\* strings.ToUpper
ToUpper(s) == [i \in 1..Len(s) |-> ToUpperChar(s[i])]

\* s[:n]; the caller guards Len(s) >= n, as Go panics otherwise
Prefix(s, n) == SubSeq(s, 1, n)

\* strings.HasSuffix
HasSuffix(s, suf) ==
    /\ Len(s) >= Len(suf)
    /\ SubSeq(s, Len(s) - Len(suf) + 1, Len(s)) = suf

XXX == <<"X","X","X">>

IsAZ09(c) == IsUpperChar(c) \/ c \in Digits

\* ^[A-Z]{6}[A-Z0-9]{2}([A-Z0-9]{3})?$
swiftCodeRegex(s) ==
    /\ Len(s) \in {8, 11}
    /\ \A i \in 1..6 : IsUpperChar(s[i])
    /\ \A i \in 7..Len(s) : IsAZ09(s[i])

\* ^[A-Z]{2}$
countryCodeRegex(s) ==
    /\ Len(s) = 2
    /\ \A i \in 1..2 : IsUpperChar(s[i])

----------------------------------------------------------------------------
(* Errors *)

Nil == <<>>
RepoErrNotFound  == <<"repository: swift code not found">>
RepoErrDuplicate == <<"repository: swift code already exists">>
ErrNotFound      == <<"service: swift code not found">>
ErrInvalidInput  == <<"service: invalid input provided">>
ErrAlreadyExists == <<"service: swift code already exists">>
\* an error of the SQL driver (connection, timeout, execution)
DriverErr == <<"driver error">>

\* fmt.Errorf("msg: %w", err)
Wrap(msg, err) == <<msg>> \o err

\* fmt.Errorf("msg: %v", err): the cause is formatted, not wrapped
Errorf(msg, err) == <<msg>>

\* errors.Is(err, target) for a sentinel target
ErrorsIs(err, target) == \E i \in 1..Len(err) : <<err[i]>> = target

----------------------------------------------------------------------------
(* The table *)

Rows(s) == DOMAIN s

\* SELECT ... WHERE swift_code = ?
RowsByCode(s, code) == {r \in Rows(s) : r.SwiftCode = code}

\* the rows a WHERE clause keeps, with their multiplicity
Select(s, keep) == [r \in keep |-> s[r]]

NumRows(s) == BagCardinality(s)

\* INSERT INTO ... VALUES (row), (row), ...
InsertRows(s, rows) ==
    s (+) [r \in {rows[i] : i \in DOMAIN rows} |->
              Cardinality({i \in DOMAIN rows : rows[i] = r})]

NoValue == [kind |-> "none"]

\* a statement: its text, its bind parameters (of a WHERE) and its VALUES rows
Stmt(sql, params, rows) == [sql |-> sql, params |-> params, rows |-> rows]


\* what a Repository method hands back, with the table as it leaves it
Out(s, err, value, st) ==
    [store |-> s, err |-> err, panicked |-> FALSE, value |-> value, stmts |-> st]

\* a run-time panic (slice bounds out of range, nil dereference): no return value
Panic(s, st) ==
    [store |-> s, err |-> Nil, panicked |-> TRUE, value |-> NoValue, stmts |-> st]

----------------------------------------------------------------------------
(* SQLSwiftRepository *)

batchSize == 100

min(a, b) == IF a < b THEN a ELSE b

\* SELECT 1 FROM t WHERE swift_code = ? LIMIT 1
SelectExists(code) == Stmt("SELECT 1 WHERE swift_code = ? LIMIT 1", <<code>>, <<>>)

\* the duplicate check comparing the code as the caller wrote it
checkDuplicate_caseSensitive(s, code, failed) ==
    IF failed THEN Wrap("trino check duplicate failed", DriverErr)
    ELSE IF RowsByCode(s, code) # {} THEN RepoErrDuplicate
    ELSE Nil

checkDuplicate(s, code, failed) ==
    IF failed THEN Wrap("trino check duplicate failed", DriverErr)
    ELSE IF RowsByCode(s, ToUpper(code)) # {} THEN RepoErrDuplicate
    ELSE Nil

checkExists(s, code, failed) ==
    IF failed THEN Wrap("trino check exists failed", DriverErr)
    ELSE IF RowsByCode(s, code) = {} THEN RepoErrNotFound
    ELSE Nil

\* SwiftCode[:8] panics when the code has fewer than 8 characters
slicePanics(bank) ==
    bank.SwiftCodeBase = <<>> /\ Len(ToUpper(bank.SwiftCode)) < 8

\* the entity as Create and CreateBatch rewrite it before the INSERT
normalized(bank) ==
    LET code == ToUpper(bank.SwiftCode)
    IN  [bank EXCEPT !.SwiftCode = code,
                     !.CountryISOCode = ToUpper(bank.CountryISOCode),
                     !.SwiftCodeBase = IF @ = <<>> THEN Prefix(code, 8) ELSE @]

\* Create inserting without the duplicate check
Create_unchecked(s, bank, fail) ==
    IF slicePanics(bank) THEN Panic(s, <<>>)
    ELSE LET ins == Stmt("INSERT", <<>>, <<normalized(bank)>>)
         IN  IF fail = 2
             THEN Out(s, Wrap("trino insert failed", DriverErr), NoValue, <<ins>>)
             ELSE Out(InsertRows(s, <<normalized(bank)>>), Nil, NoValue, <<ins>>)

Create(s, bank, fail) ==
    LET q1  == SelectExists(ToUpper(bank.SwiftCode))
        dup == checkDuplicate(s, bank.SwiftCode, fail = 1)
    IN  IF dup # Nil THEN Out(s, dup, NoValue, <<q1>>)
        ELSE IF slicePanics(bank) THEN Panic(s, <<q1>>)
        ELSE LET row == normalized(bank)
                 ins == Stmt("INSERT", <<>>, <<row>>)
             IN  IF fail = 2
                 THEN Out(s, Wrap("trino insert failed", DriverErr), NoValue, <<q1, ins>>)
                 ELSE Out(InsertRows(s, <<row>>), Nil, NoValue, <<q1, ins>>)

\* the chunk loop starting each further chunk one entity too late
RECURSIVE batchLoop_skipsBoundary(_, _, _, _, _)
batchLoop_skipsBoundary(s, banks, i, fail, st) ==
    IF i >= Len(banks) THEN Out(s, Nil, NoValue, st)
    ELSE LET endIdx == min(i + batchSize, Len(banks))
             batch  == SubSeq(banks, i + 1, endIdx)
             rows   == [j \in 1..Len(batch) |-> normalized(batch[j])]
             ins    == Stmt("INSERT", <<>>, rows)
         IN  IF fail = Len(st) + 1
             THEN Out(s, Errorf("trino batch insert failed", DriverErr),
                      NoValue, Append(st, ins))
             ELSE batchLoop_skipsBoundary(InsertRows(s, rows), banks, endIdx + 1, fail,
                                          Append(st, ins))

\* the chunk loop going on with the next chunk after a failed INSERT
RECURSIVE batchLoop_continues(_, _, _, _, _)
batchLoop_continues(s, banks, i, fail, st) ==
    IF i >= Len(banks) THEN Out(s, Nil, NoValue, st)
    ELSE LET endIdx == min(i + batchSize, Len(banks))
             batch  == SubSeq(banks, i + 1, endIdx)
             rows   == [j \in 1..Len(batch) |-> normalized(batch[j])]
             ins    == Stmt("INSERT", <<>>, rows)
         IN  IF fail = Len(st) + 1
             THEN [batchLoop_continues(s, banks, endIdx, fail, Append(st, ins))
                      EXCEPT !.err = Errorf("trino batch insert failed", DriverErr)]
             ELSE batchLoop_continues(InsertRows(s, rows), banks, endIdx, fail,
                                      Append(st, ins))

\* the chunk loop of CreateBatch from offset i (0-based), st the statements so far
RECURSIVE batchLoop(_, _, _, _, _)
batchLoop(s, banks, i, fail, st) ==
    IF i >= Len(banks) THEN Out(s, Nil, NoValue, st)
    ELSE LET endIdx == min(i + batchSize, Len(banks))
             batch  == SubSeq(banks, i + 1, endIdx)
         IN  IF \E j \in 1..Len(batch) : slicePanics(batch[j]) THEN Panic(s, st)
             ELSE LET rows == [j \in 1..Len(batch) |-> normalized(batch[j])]
                      ins  == Stmt("INSERT", <<>>, rows)
                  IN  IF fail = Len(st) + 1
                      THEN Out(s, Errorf("trino batch insert failed", DriverErr),
                               NoValue, Append(st, ins))
                      ELSE batchLoop(InsertRows(s, rows), banks, endIdx, fail,
                                     Append(st, ins))

CreateBatch(s, banks, fail) ==
    IF Len(banks) = 0 THEN Out(s, Nil, NoValue, <<>>)
    ELSE batchLoop(s, banks, 0, fail, <<>>)

\* the point query matching every code that begins with the one asked for
getBankByCode_byPrefix(s, code, failed) ==
    LET match == {r \in Rows(s) : /\ Len(r.SwiftCode) >= Len(code)
                                  /\ SubSeq(r.SwiftCode, 1, Len(code)) = code}
    IN  IF failed THEN {[err |-> Wrap("trino query failed", DriverErr), bank |-> NoValue]}
        ELSE IF match = {} THEN {[err |-> RepoErrNotFound, bank |-> NoValue]}
        ELSE {[err |-> Nil, bank |-> r] : r \in match}

\* the outcomes of the point query: the store decides which matching row it scans
getBankByCode(s, code, failed) ==
    IF failed THEN {[err |-> Wrap("trino query failed", DriverErr), bank |-> NoValue]}
    ELSE IF RowsByCode(s, code) = {} THEN {[err |-> RepoErrNotFound, bank |-> NoValue]}
    ELSE {[err |-> Nil, bank |-> r] : r \in RowsByCode(s, code)}

\* the branch query without its swift_code_base condition
GetBranchesByHQBase_anyBase(s, hqBase, failed) ==
    IF failed THEN [err |-> Wrap("trino query failed", DriverErr), rows |-> EmptyBag]
    ELSE [err  |-> Nil,
          rows |-> Select(s, {r \in Rows(s) : r.IsHeadquarter = FALSE})]

\* SELECT ... WHERE swift_code_base = ? AND is_headquarter = false
GetBranchesByHQBase(s, hqBase, failed) ==
    IF failed THEN [err |-> Wrap("trino query failed", DriverErr), rows |-> EmptyBag]
    ELSE [err  |-> Nil,
          rows |-> Select(s, {r \in Rows(s) : r.SwiftCodeBase = hqBase
                                              /\ r.IsHeadquarter = FALSE})]

Detail(bank, branches) == [kind |-> "detail", Bank |-> bank, Branches |-> branches]

GetByCode(s, code, fail) ==
    LET q1 == Stmt("SELECT WHERE swift_code = ?", <<ToUpper(code)>>, <<>>)
        finish(g) ==
            IF g.err # Nil THEN Out(s, g.err, NoValue, <<q1>>)
            ELSE IF g.bank.IsHeadquarter
            THEN LET q2 == Stmt("SELECT WHERE swift_code_base = ? AND is_headquarter = false",
                                <<g.bank.SwiftCodeBase>>, <<>>)
                     b  == GetBranchesByHQBase(s, g.bank.SwiftCodeBase, fail = 2)
                 IN  IF b.err # Nil
                     THEN Out(s, Wrap("trino fetch branches failed", b.err), NoValue, <<q1, q2>>)
                     ELSE Out(s, Nil, Detail(g.bank, b.rows), <<q1, q2>>)
            ELSE Out(s, Nil, Detail(g.bank, EmptyBag), <<q1>>)
    IN  {finish(g) : g \in getBankByCode(s, ToUpper(code), fail = 1)}

\* SELECT country_name ... WHERE country_iso_code = ? LIMIT 1: any matching row's name
getCountryName(s, countryCode, failed) ==
    LET match == {r \in Rows(s) : r.CountryISOCode = countryCode}
    IN  IF failed THEN {[err |-> Wrap("trino query failed", DriverErr), name |-> ""]}
        ELSE IF match = {} THEN {[err |-> RepoErrNotFound, name |-> ""]}
        ELSE {[err |-> Nil, name |-> r.CountryName] : r \in match}

\* GetByCountry querying with the country code as the caller wrote it
GetByCountry_caseSensitive(s, countryCode, fail) ==
    LET q1 == Stmt("SELECT country_name WHERE country_iso_code = ? LIMIT 1", <<countryCode>>, <<>>)
        q2 == Stmt("SELECT WHERE country_iso_code = ?", <<countryCode>>, <<>>)
        finish(n) ==
            IF n.err # Nil THEN Out(s, n.err, NoValue, <<q1>>)
            ELSE Out(s, Nil,
                     [kind |-> "country", CountryISO2 |-> countryCode,
                      CountryName |-> n.name,
                      SwiftCodes |-> Select(s, {r \in Rows(s) :
                                                  r.CountryISOCode = countryCode})],
                     <<q1, q2>>)
    IN  {finish(n) : n \in getCountryName(s, countryCode, fail = 1)}

GetByCountry(s, countryCode, fail) ==
    LET cc == ToUpper(countryCode)
        q1 == Stmt("SELECT country_name WHERE country_iso_code = ? LIMIT 1", <<cc>>, <<>>)
        q2 == Stmt("SELECT WHERE country_iso_code = ?", <<cc>>, <<>>)
        finish(n) ==
            IF n.err # Nil THEN Out(s, n.err, NoValue, <<q1>>)
            ELSE IF fail = 2
            THEN Out(s, Wrap("trino query failed", DriverErr), NoValue, <<q1, q2>>)
            ELSE Out(s, Nil,
                     [kind |-> "country", CountryISO2 |-> cc, CountryName |-> n.name,
                      SwiftCodes |-> Select(s, {r \in Rows(s) : r.CountryISOCode = cc})],
                     <<q1, q2>>)
    IN  {finish(n) : n \in getCountryName(s, cc, fail = 1)}

\* Delete looking for the code as the caller wrote it
Delete_caseSensitive(s, codeArg, fail) ==
    LET q1   == SelectExists(codeArg)
        del  == Stmt("DELETE WHERE swift_code = ?", <<codeArg>>, <<>>)
        ex   == checkExists(s, codeArg, fail = 1)
    IN  IF ex # Nil THEN Out(s, ex, NoValue, <<q1>>)
        ELSE IF fail = 2
        THEN Out(s, Wrap("trino delete failed", DriverErr), NoValue, <<q1, del>>)
        ELSE Out(Select(s, {r \in Rows(s) : r.SwiftCode # codeArg}), Nil, NoValue,
                 <<q1, del>>)

Delete(s, codeArg, fail) ==
    LET code == ToUpper(codeArg)
        q1   == SelectExists(code)
        del  == Stmt("DELETE WHERE swift_code = ?", <<code>>, <<>>)
        ex   == checkExists(s, code, fail = 1)
    IN  IF ex # Nil THEN Out(s, ex, NoValue, <<q1>>)
        ELSE IF fail = 2
        THEN Out(s, Wrap("trino delete failed", DriverErr), NoValue, <<q1, del>>)
        ELSE Out(Select(s, {r \in Rows(s) : r.SwiftCode # code}), Nil, NoValue, <<q1, del>>)

\* what the store answers to a statement that writes: the table after it, its
\* error and the number of rows it affected
Done(s, err, affected) == [store |-> s, err |-> err, affected |-> affected]

\* the INSERT against a table that refuses a swift_code it already holds
execInsert_unique(s, row) ==
    IF RowsByCode(s, row.SwiftCode) # {} THEN Done(s, DriverErr, 0)
    ELSE Done(InsertRows(s, <<row>>), Nil, 1)

\* INSERT INTO swift_banks ... VALUES (row): the table declares no key
execInsert(s, row) == Done(InsertRows(s, <<row>>), Nil, 1)

\* the DELETE failing when no row has the code
execDelete_failsOnMiss(s, code) ==
    IF RowsByCode(s, code) = {} THEN Done(s, DriverErr, 0)
    ELSE Done(Select(s, {r \in Rows(s) : r.SwiftCode # code}), Nil,
              NumRows(Select(s, RowsByCode(s, code))))

\* DELETE FROM swift_banks WHERE swift_code = ?
execDelete(s, code) ==
    Done(Select(s, {r \in Rows(s) : r.SwiftCode # code}), Nil,
         NumRows(Select(s, RowsByCode(s, code))))

----------------------------------------------------------------------------
(* swiftService *)

\* one call of a Repository method: its argument and the error it returned
RepoCall(fn, arg, err) == [fn |-> fn, arg |-> arg, err |-> err]

\* what a service method hands back: the Repository outcome o with the service's
\* own error and value, and the Repository calls it made
SvcOut(o, err, value, calls) ==
    [store |-> o.store, err |-> err, panicked |-> o.panicked, value |-> value,
     stmts |-> o.stmts, calls |-> calls]

\* return ErrInvalidInput before any Repository call
Rejected(s) ==
    [store |-> s, err |-> ErrInvalidInput, panicked |-> FALSE, value |-> NoValue,
     stmts |-> <<>>, calls |-> <<>>]

GetSwiftCodeDetails(s, code, fail) ==
    IF ~swiftCodeRegex(ToUpper(code)) THEN {Rejected(s)}
    ELSE LET finish(o) ==
                 LET calls == <<RepoCall("GetByCode", [code |-> code], o.err)>>
                 IN  IF o.panicked THEN SvcOut(o, Nil, NoValue, calls)
                     ELSE IF o.err # Nil
                     THEN IF ErrorsIs(o.err, RepoErrNotFound)
                          THEN SvcOut(o, ErrNotFound, NoValue, calls)
                          ELSE SvcOut(o, o.err, NoValue, calls)
                     ELSE SvcOut(o, Nil, o.value, calls)
         IN  {finish(o) : o \in GetByCode(s, code, fail)}

GetSwiftCodesByCountry(s, countryCode, fail) ==
    IF ~countryCodeRegex(ToUpper(countryCode)) THEN {Rejected(s)}
    ELSE LET finish(o) ==
                 LET calls == <<RepoCall("GetByCountry", [countryCode |-> countryCode], o.err)>>
                 IN  IF o.panicked THEN SvcOut(o, Nil, NoValue, calls)
                     ELSE IF o.err # Nil
                     THEN IF ErrorsIs(o.err, RepoErrNotFound)
                          THEN SvcOut(o, ErrNotFound, NoValue, calls)
                          ELSE SvcOut(o, o.err, NoValue, calls)
                     ELSE SvcOut(o, Nil, o.value, calls)
         IN  {finish(o) : o \in GetByCountry(s, countryCode, fail)}

\* a nil *models.SwiftBank
NilBank == [nil |-> TRUE]

\* bank.SwiftCode of a nil bank: the call panics before any Repository call
NilDereference(s) ==
    [store |-> s, err |-> Nil, panicked |-> TRUE, value |-> NoValue,
     stmts |-> <<>>, calls |-> <<>>]

\* the entity as CreateSwiftCode rewrites it before Repository.Create
prepared(bank) ==
    LET code == ToUpper(bank.SwiftCode)
    IN  [bank EXCEPT !.SwiftCode = code,
                     !.CountryISOCode = ToUpper(bank.CountryISOCode),
                     !.IsHeadquarter = HasSuffix(code, XXX),
                     !.SwiftCodeBase = IF @ = <<>> THEN Prefix(code, 8) ELSE @]

\* CreateSwiftCode without the bank name check
CreateSwiftCode_anyName(s, bank, fail) ==
    IF bank = NilBank THEN NilDereference(s)
    ELSE IF ~swiftCodeRegex(ToUpper(bank.SwiftCode)) THEN Rejected(s)
    ELSE IF ~countryCodeRegex(ToUpper(bank.CountryISOCode)) THEN Rejected(s)
    ELSE LET b     == prepared(bank)
             o     == Create(s, b, fail)
             calls == <<RepoCall("Create", [bank |-> b], o.err)>>
         IN  IF ErrorsIs(o.err, RepoErrDuplicate)
             THEN SvcOut(o, ErrAlreadyExists, NoValue, calls)
             ELSE SvcOut(o, o.err, NoValue, calls)

CreateSwiftCode(s, bank, fail) ==
    IF bank = NilBank THEN NilDereference(s)
    ELSE IF ~swiftCodeRegex(ToUpper(bank.SwiftCode)) THEN Rejected(s)
    ELSE IF ~countryCodeRegex(ToUpper(bank.CountryISOCode)) THEN Rejected(s)
    ELSE IF bank.BankName = "" THEN Rejected(s)
    ELSE LET b     == prepared(bank)
             o     == Create(s, b, fail)
             calls == <<RepoCall("Create", [bank |-> b], o.err)>>
         IN  IF o.panicked THEN SvcOut(o, Nil, NoValue, calls)
             ELSE IF o.err # Nil
             THEN IF ErrorsIs(o.err, RepoErrDuplicate)
                  THEN SvcOut(o, ErrAlreadyExists, NoValue, calls)
                  ELSE SvcOut(o, o.err, NoValue, calls)
             ELSE SvcOut(o, Nil, NoValue, calls)

\* DeleteSwiftCode handing the Repository error back as it is
DeleteSwiftCode_untranslated(s, code, fail) ==
    IF ~swiftCodeRegex(ToUpper(code)) THEN Rejected(s)
    ELSE LET o == Delete(s, code, fail)
         IN  SvcOut(o, o.err, NoValue, <<RepoCall("Delete", [code |-> code], o.err)>>)

DeleteSwiftCode(s, code, fail) ==
    IF ~swiftCodeRegex(ToUpper(code)) THEN Rejected(s)
    ELSE LET o     == Delete(s, code, fail)
             calls == <<RepoCall("Delete", [code |-> code], o.err)>>
         IN  IF o.panicked THEN SvcOut(o, Nil, NoValue, calls)
             ELSE IF o.err # Nil
             THEN IF ErrorsIs(o.err, RepoErrNotFound)
                  THEN SvcOut(o, ErrNotFound, NoValue, calls)
                  ELSE SvcOut(o, o.err, NoValue, calls)
             ELSE SvcOut(o, Nil, NoValue, calls)

----------------------------------------------------------------------------
(* DefaultSwiftBanksParser *)

\* a code as %s prints it
RECURSIVE Str(_)
Str(s) == IF s = <<>> THEN "" ELSE Head(s) \o Str(Tail(s))

\* ^[A-Z]{6}[A-Z0-9]{2}([A-Z0-9]{3})?$
bicRegex(s) ==
    /\ Len(s) \in {8, 11}
    /\ \A i \in 1..6 : IsUpperChar(s[i])
    /\ \A i \in 7..Len(s) : IsAZ09(s[i])

\* the content validations without the BIC format rule
validationError_noPattern(record) ==
    LET code == Str(record.SwiftCode)
    IN  IF record.SwiftCode = <<>>
        THEN <<"validation error: SwiftCode cannot be empty for record with Index "
                 \o ToString(record.Index)>>
        ELSE IF record.BankName = ""
        THEN <<"validation error: BankName cannot be empty for SwiftCode '" \o code \o "'">>
        ELSE IF ~countryCodeRegex(record.CountryISOCode)
        THEN <<"validation error: CountryISOCode '" \o Str(record.CountryISOCode)
                 \o "' for Bank '" \o record.BankName \o "' does not match ISO2 format">>
        ELSE Nil

\* the content validations of one record, in the order the parser applies them:
\* the error of the first rule the record breaks, Nil when it breaks none
validationError(record) ==
    LET code == Str(record.SwiftCode)
    IN  IF record.SwiftCode = <<>>
        THEN <<"validation error: SwiftCode cannot be empty for record with Index "
                 \o ToString(record.Index)>>
        ELSE IF ~bicRegex(record.SwiftCode)
        THEN <<"validation error: SwiftCode '" \o code \o "' at Index "
                 \o ToString(record.Index) \o " does not match BIC format">>
        ELSE IF Len(record.SwiftCode) > 15
        THEN <<"validation error: SwiftCode '" \o code \o "' at Index "
                 \o ToString(record.Index) \o " exceeds maximum length">>
        ELSE IF record.BankName = ""
        THEN <<"validation error: BankName cannot be empty for SwiftCode '" \o code \o "'">>
        ELSE IF Len(record.BankName) > 100
        THEN <<"validation error: BankName '" \o record.BankName \o "' for SwiftCode '"
                 \o code \o "' exceeds maximum length">>
        ELSE IF record.CountryISOCode = <<>>
        THEN <<"validation error: CountryISOCode cannot be empty for SwiftCode '"
                 \o code \o "'">>
        ELSE IF ~countryCodeRegex(record.CountryISOCode)
        THEN <<"validation error: CountryISOCode '" \o Str(record.CountryISOCode)
                 \o "' for Bank '" \o record.BankName \o "' does not match ISO2 format">>
        ELSE IF record.Address = ""
        THEN <<"validation error: Address cannot be empty for SwiftCode '" \o code \o "'">>
        ELSE IF Len(record.Address) > 200
        THEN <<"validation error: Address for SwiftCode '" \o code
                 \o "' exceeds maximum length">>
        ELSE IF record.CountryName = ""
        THEN <<"validation error: CountryName cannot be empty for SwiftCode '"
                 \o code \o "'">>
        ELSE IF Len(record.CountryName) > 100
        THEN <<"validation error: CountryName '" \o record.CountryName \o "' for Bank '"
                 \o record.BankName \o "' exceeds maximum length">>
        ELSE Nil

\* the conversion taking the whole code as the base
toBank_wholeCode(record) ==
    [SwiftCode      |-> record.SwiftCode,
     SwiftCodeBase  |-> record.SwiftCode,
     CountryISOCode |-> record.CountryISOCode,
     BankName       |-> record.BankName,
     IsHeadquarter  |-> HasSuffix(record.SwiftCode, XXX),
     Address        |-> record.Address,
     CountryName    |-> record.CountryName]

\* the conversion of a record to models.SwiftBank
toBank(record) ==
    LET isHeadquarter == HasSuffix(record.SwiftCode, XXX)
        swiftCodeBase == IF Len(record.SwiftCode) >= 8
                         THEN Prefix(record.SwiftCode, 8)
                         ELSE record.SwiftCode
    IN  [SwiftCode      |-> record.SwiftCode,
         SwiftCodeBase  |-> swiftCodeBase,
         CountryISOCode |-> record.CountryISOCode,
         BankName       |-> record.BankName,
         IsHeadquarter  |-> isHeadquarter,
         Address        |-> record.Address,
         CountryName    |-> record.CountryName]

\* what ParseSwiftBanks hands back: the banks, or nil and the error
Parsed(banks) == [err |-> Nil, value |-> [kind |-> "banks", banks |-> banks]]
ParseFailed(err) == [err |-> err, value |-> NoValue]

\* the strict loop from record i on, banks the entities appended so far
RECURSIVE parseLoop(_, _, _)
parseLoop(records, i, banks) ==
    IF i > Len(records) THEN Parsed(banks)
    ELSE LET e == validationError(records[i])
         IN  IF e # Nil THEN ParseFailed(e)
             ELSE parseLoop(records, i + 1, Append(banks, toBank(records[i])))

\* the loop of the variant that logs an invalid record and goes on
RECURSIVE skippingLoop(_, _, _)
skippingLoop(records, i, banks) ==
    IF i > Len(records) THEN Parsed(banks)
    ELSE LET e == validationError(records[i])
         IN  IF e # Nil THEN skippingLoop(records, i + 1, banks)
             ELSE skippingLoop(records, i + 1, Append(banks, toBank(records[i])))

\* the strict parser reporting the last invalid record instead of the first
RECURSIVE lastError(_, _)
lastError(records, i) ==
    IF i = 0 THEN Nil
    ELSE IF validationError(records[i]) # Nil THEN validationError(records[i])
    ELSE lastError(records, i - 1)

ParseSwiftBanks_reportsLast(records) ==
    IF lastError(records, Len(records)) # Nil
    THEN ParseFailed(lastError(records, Len(records)))
    ELSE parseLoop(records, 1, <<>>)

\* ParseSwiftBanks of internal/parsers: the first invalid record ends the parse
ParseSwiftBanks(records) == parseLoop(records, 1, <<>>)

\* the skipping variant failing on a batch without any valid record
ParseSwiftBanksSkipping_noneValidFails(records) ==
    LET o == skippingLoop(records, 1, <<>>)
    IN  IF o.value.banks = <<>>
        THEN ParseFailed(<<"no valid records">>)
        ELSE o

\* ParseSwiftBanks in its skipping variant
ParseSwiftBanksSkipping(records) == skippingLoop(records, 1, <<>>)

----------------------------------------------------------------------------
(* CSVSwiftBanksReader *)

\* the characters of a text, one by one
CharsOf(text) == [i \in 1..Len(text) |-> SubSeq(text, i, i)]

\* strings.TrimSpace
TrimSpace(s) ==
    LET ink == {i \in 1..Len(s) : s[i] \notin WhiteSpace}
    IN  IF ink = {} THEN <<>>
        ELSE SubSeq(s, CHOOSE i \in ink : \A j \in ink : i <= j,
                       CHOOSE i \in ink : \A j \in ink : j <= i)

\* the field without its leading white space (csvReader.TrimLeadingSpace)
TrimLeadingSpace(s) ==
    LET ink == {i \in 1..Len(s) : s[i] \notin WhiteSpace}
    IN  IF ink = {} THEN <<>>
        ELSE SubSeq(s, CHOOSE i \in ink : \A j \in ink : i <= j, Len(s))

\* strings.Split(s, sep), sep one character
Split(s, sep) ==
    LET at == {i \in 1..Len(s) : s[i] = sep}
        n  == Cardinality(at)
        cut(k) == IF k = 0 THEN 0
                  ELSE IF k = n + 1 THEN Len(s) + 1
                  ELSE CHOOSE i \in at : Cardinality({j \in at : j < i}) = k - 1
    IN  [k \in 1..(n + 1) |-> SubSeq(s, cut(k - 1) + 1, cut(k) - 1)]

expectedHeader ==
    "COUNTRY ISO2 CODE,SWIFT CODE,CODE TYPE,NAME,ADDRESS,TOWN NAME,COUNTRY NAME,TIME ZONE"

expectedHeaders == Split(CharsOf(expectedHeader), ",")

\* io.EOF, io.ErrUnexpectedEOF and csv.ErrFieldCount
EOF              == <<"EOF">>
ErrUnexpectedEOF == <<"unexpected EOF">>
ErrFieldCount    == <<"wrong number of fields">>

\* the records encoding/csv finds in a text without quoted fields: one per
\* non-empty line, split at the commas, each with the line it stands on
csvRecords(input) ==
    LET lines  == Split(CharsOf(input.text), "\n")
        full   == {i \in 1..Len(lines) : lines[i] # <<>>}
        nth(k) == CHOOSE i \in full : Cardinality({j \in full : j < i}) = k - 1
        fields(l) == LET raw == Split(l, ",")
                     IN  [f \in 1..Len(raw) |-> TrimLeadingSpace(raw[f])]
    IN  [k \in 1..Cardinality(full) |-> [line |-> nth(k), fields |-> fields(lines[nth(k)])]]

\* the n-th csvReader.Read() of a call: the next record, the end of the input
\* (or the failure of a broken stream), or a record that has not as many fields
\* as the first one (FieldsPerRecord is 0)
csvRead(input, n) ==
    LET recs == csvRecords(input)
    IN  IF n > Len(recs)
        THEN [err |-> IF input.broken THEN ErrUnexpectedEOF ELSE EOF, record |-> <<>>]
        ELSE IF Len(recs[n].fields) # Len(recs[1].fields)
        THEN [err |-> Wrap("record on line " \o ToString(recs[n].line)
                             \o ": wrong number of fields", ErrFieldCount),
              record |-> recs[n].fields]
        ELSE [err |-> Nil, record |-> recs[n].fields]

\* what LoadSwiftBanks hands back after so many csvReader.Read() calls:
\* the records, or nil and the error
Loaded(records, reads) ==
    [err |-> Nil, value |-> [kind |-> "records", records |-> records], reads |-> reads]
LoadFailed(err, reads) == [err |-> err, value |-> NoValue, reads |-> reads]

\* headerMap[strings.ToUpper(field)]: the (0-based) place of the last header
\* column that reads so in upper case, 0 when the map has no such key
headerMap(header, field) ==
    LET at == {i \in 1..Len(header) : ToUpper(header[i]) = ToUpper(field)}
    IN  IF at = {} THEN 0 ELSE (CHOOSE i \in at : \A j \in at : j <= i) - 1

getVal(header, row, field) == TrimSpace(row[headerMap(header, CharsOf(field)) + 1])

\* the record appended for a data row
recordOf(header, row, rowNum) ==
    [Index          |-> rowNum,
     SwiftCode      |-> getVal(header, row, "SWIFT CODE"),
     BankName       |-> Str(getVal(header, row, "NAME")),
     CountryISOCode |-> getVal(header, row, "COUNTRY ISO2 CODE"),
     Address        |-> Str(getVal(header, row, "ADDRESS")),
     CountryName    |-> Str(getVal(header, row, "COUNTRY NAME"))]

\* the row loop at row rowNum, records the ones appended so far
RECURSIVE rowLoop(_, _, _, _)
rowLoop(input, header, rowNum, records) ==
    LET r == csvRead(input, rowNum + 1)
    IN  IF r.err = EOF THEN Loaded(records, rowNum + 1)
        ELSE IF r.err # Nil
        THEN LoadFailed(Wrap("row " \o ToString(rowNum), r.err), rowNum + 1)
        ELSE IF Len(r.record) # 5
        THEN LoadFailed(<<"row " \o ToString(rowNum) \o ": invalid length">>, rowNum + 1)
        ELSE rowLoop(input, header, rowNum + 1,
                     Append(records, recordOf(header, r.record, rowNum)))

\* the header columns that are not the expected ones
wrongColumns(header) ==
    {i \in 1..Len(header) :
        TrimSpace(ToUpper(header[i])) # TrimSpace(ToUpper(expectedHeaders[i]))}

\* LoadSwiftBanks checking the number of header columns only
LoadSwiftBanks_lengthOnly(input) ==
    LET h == csvRead(input, 1)
    IN  IF h.err # Nil
        THEN IF h.err = EOF THEN Loaded(<<>>, 1)
             ELSE LoadFailed(Wrap("read header", h.err), 1)
        ELSE IF Len(h.record) # Len(expectedHeaders)
        THEN LoadFailed(<<"invalid header length: expected "
                            \o ToString(Len(expectedHeaders)) \o ", got "
                            \o ToString(Len(h.record))>>, 1)
        ELSE rowLoop(input, h.record, 1, <<>>)

LoadSwiftBanks(input) ==
    LET h == csvRead(input, 1)
    IN  IF h.err # Nil
        THEN IF h.err = EOF THEN Loaded(<<>>, 1)
             ELSE LoadFailed(Wrap("read header", h.err), 1)
        ELSE IF Len(h.record) # Len(expectedHeaders)
        THEN LoadFailed(<<"invalid header length: expected "
                            \o ToString(Len(expectedHeaders)) \o ", got "
                            \o ToString(Len(h.record))>>, 1)
        ELSE IF wrongColumns(h.record) # {}
        THEN LET i == CHOOSE i \in wrongColumns(h.record) :
                          \A j \in wrongColumns(h.record) : i <= j
             IN  LoadFailed(<<"invalid header: expected '" \o Str(expectedHeaders[i])
                                \o "' at index " \o ToString(i - 1) \o ", got '"
                                \o Str(h.record[i]) \o "'">>, 1)
        ELSE rowLoop(input, h.record, 1, <<>>)

----------------------------------------------------------------------------
(* Inputs *)

HQ1   == <<"A","B","C","D","U","S","3","3","X","X","X">>
hq1   == <<"a","b","c","d","u","s","3","3","x","x","x">>
BR1   == <<"A","B","C","D","U","S","3","3","1","2","3">>
HQ2   == <<"W","X","Y","Z","P","L","2","2","X","X","X">>
Base2 == <<"W","X","Y","Z","P","L","2","2">>
\* too short for a base
SHORT == <<"A","B","C","1","2","3">>

us == <<"u","s">>
PL == <<"P","L">>

CountryNameOf(cc) == IF ToUpper(cc) = <<"U","S">> THEN "United States" ELSE "Poland"

Bank(code, base, cc, name, hq) ==
    [SwiftCode |-> code, SwiftCodeBase |-> base, CountryISOCode |-> cc,
     BankName |-> name, IsHeadquarter |-> hq, Address |-> "1 Main St",
     CountryName |-> CountryNameOf(cc)]

RepoCodes == {HQ1, hq1, BR1, HQ2, SHORT}

\* entities handed to the Repository directly: it validates nothing
RepoBanks ==
    {Bank(HQ1, <<>>, us, "Test Bank", TRUE),
     Bank(hq1, <<>>, us, "Test Bank", TRUE),
     Bank(HQ1, <<>>, us, "Test Bank", FALSE),
     Bank(BR1, <<>>, us, "Test Bank", FALSE),
     Bank(BR1, <<>>, us, "Test Bank", TRUE),
     Bank(BR1, Base2, PL, "Test Bank", FALSE),
     Bank(HQ2, <<>>, PL, "Test Bank", TRUE),
     Bank(SHORT, <<>>, us, "Test Bank", FALSE),
     Bank(SHORT, Base2, PL, "Test Bank", FALSE)}

\* the entities of a file to load, in file order
LoadFile ==
    <<Bank(HQ1, <<>>, us, "Test Bank", TRUE),
      Bank(BR1, <<>>, us, "Test Bank", FALSE),
      Bank(HQ1, <<>>, us, "Test Bank", TRUE),
      Bank(SHORT, <<>>, us, "Test Bank", FALSE),
      Bank(HQ2, <<>>, PL, "Test Bank", TRUE)>>

\* the batches a load hands to CreateBatch: runs of consecutive entities
BatchInputs ==
    {SubSeq(LoadFile, i, min(i + n - 1, Len(LoadFile))) :
        i \in 1..Len(LoadFile), n \in 0..MaxBatch}

DigitOf == <<"0","1","2","3","4","5","6","7","8","9">>

\* the i-th bank (from 0) of a large batch: codes and bases repeat with i
largeBank(i) ==
    LET letter == Upper[(i % 26) + 1]
    IN  [SwiftCode |-> <<"B","A","N","K", letter, DigitOf[(i % 10) + 1]>>,
         SwiftCodeBase |-> <<"B","A","N","K", letter>>,
         CountryISOCode |-> <<"U","S">>,
         BankName |-> "Bank", IsHeadquarter |-> (i % 5 = 0),
         Address |-> "Address", CountryName |-> "United States"]

largeBatch(n) == [i \in 1..n |-> largeBank(i - 1)]

\* batch lengths around the chunk boundaries
LoadSizes ==
    {n \in {0, batchSize - 1, batchSize, batchSize + 1, 150, 2 * batchSize, MaxLoad} :
        n <= MaxLoad}

\* the chunks a batch of the largest length is split into
MaxChunks == (MaxLoad + batchSize - 1) \div batchSize

CountryInputs == {us, PL, <<"U","S">>, <<"D","E">>}

B8    == <<"A","B","C","D","U","S","3","3">>
\* a digit where the pattern wants a letter
BAD11 == <<"A","B","1","D","U","S","3","3","X","X","X">>
USA   == <<"U","S","A">>

ServiceCodes == {HQ1, hq1, BR1, HQ2, B8, SHORT, BAD11, <<>>}

ServiceCountries == CountryInputs \cup {USA, <<"U","1">>, <<>>}

\* entities a caller posts to CreateSwiftCode
ServiceBanks ==
    {Bank(hq1, <<>>, us, "Test Bank", FALSE),
     Bank(BR1, <<>>, us, "Test Bank", TRUE),
     Bank(BR1, Base2, PL, "Test Bank", FALSE),
     Bank(B8, <<>>, us, "Test Bank", FALSE),
     Bank(HQ1, <<>>, USA, "Test Bank", TRUE),
     Bank(HQ1, <<>>, us, "", TRUE),
     Bank(SHORT, <<>>, us, "Test Bank", FALSE),
     Bank(BAD11, <<>>, us, "Test Bank", TRUE)}

\* a record as the reader hands it over; Index is set by its place in the batch
Record(code, name, cc, address, countryName) ==
    [Index |-> 0, CountryISOCode |-> cc, SwiftCode |-> code, BankName |-> name,
     Address |-> address, CountryName |-> countryName]

US == <<"U","S">>
\* one character short of a base
SEVEN  == <<"A","B","C","D","U","S","3">>
LONG17 == <<"L","O","N","G","S","W","I","F","T","C","O","D","E","1","2","3","4">>

Text50 == "Lorem ipsum dolor sit amet consectetur adipiscing "
\* 101 and 201 characters
Text101 == Text50 \o Text50 \o "x"
Text201 == Text50 \o Text50 \o Text50 \o Text50 \o "x"

ValidHQ     == Record(HQ1, "Bank One", US, "Address 1", "United States")
ValidBranch == Record(BR1, "Bank Three", US, "Address 3", "United States")
\* the code of ValidHQ once more, under another name
SameCode    == Record(HQ1, "Bank Two", US, "Address 2", "United States")
ShortCode   == Record(SEVEN, "Bank Two", US, "Address 2", "United States")
NoName      == Record(HQ2, "", PL, "Address 3", "Poland")
BadCountry  == Record(HQ2, "Valid Bank", USA, "Address 4", "United States")

\* the records batches are built from
CoreRecords == {ValidHQ, ValidBranch, SameCode, ShortCode, NoName, BadCountry}

\* one record for every other way of passing or breaking a rule
OtherRecords ==
    {Record(B8, "Bank One", US, "Address 1", "United States"),
     Record(<<>>, "Invalid Bank", US, "Address 1", "United States"),
     Record(hq1, "Bank One", US, "Address 1", "United States"),
     Record(SHORT, "Bank One", US, "Address 1", "United States"),
     Record(LONG17, "Dummy Bank", <<"G","B">>, "789 Oak St", "United Kingdom"),
     Record(HQ2, Text101, PL, "Address 3", "Poland"),
     Record(HQ2, "Valid Bank", <<>>, "Address 3", "Poland"),
     Record(HQ2, "Valid Bank", us, "Address 3", "Poland"),
     Record(HQ2, "Valid Bank", PL, "", "Poland"),
     Record(HQ2, "Valid Bank", PL, Text201, "Poland"),
     Record(HQ2, "Valid Bank", PL, "Address 3", ""),
     Record(HQ2, "Valid Bank", PL, "Address 3", Text101)}

\* the reader numbers the records of a batch in file order
Numbered(rs) == [i \in 1..Len(rs) |-> [rs[i] EXCEPT !.Index = i]]

RecordBatches ==
    {Numbered(rs) :
        rs \in (UNION {[1..n -> CoreRecords] : n \in 0..MaxRecords})
               \cup {<<r>> : r \in OtherRecords}
               \cup {<<ValidHQ, r>> : r \in OtherRecords}
               \cup {<<r, ValidBranch>> : r \in OtherRecords}}

\* header lines: the expected one, one in another case and spacing, one short
\* of a column, one with a wrong name, one with a column too many, one with two
\* columns swapped
HeaderLines ==
    {expectedHeader,
     " country iso2 code , Swift Code ,CODE TYPE, Name ,Address,TOWN NAME,Country Name, TIME ZONE",
     "COUNTRY ISO2 CODE,SWIFT CODE,CODE TYPE,NAME,ADDRESS,TOWN NAME,COUNTRY NAME",
     "COUNTRY ISO2 CODE,SWIFT CODE,CODE TYPE,BANK NAME,ADDRESS,TOWN NAME,COUNTRY NAME,TIME ZONE",
     expectedHeader \o ",EXTRA",
     "SWIFT CODE,COUNTRY ISO2 CODE,CODE TYPE,NAME,ADDRESS,TOWN NAME,COUNTRY NAME,TIME ZONE"}

\* lines after the header: rows of 8 fields, one of them spaced out, a row of 6
\* and a row of 5 fields, and an empty line
DataLines ==
    {"US,CHASUS33,N,Chase Bank,123 Main St,New York,United States,EST",
     "GB,BARC2022,N,Barclays,10 Downing St,London,United Kingdom,GMT",
     " US , CHASUS33 , N , Chase Bank  ,  123 Main St  , New York ,  United States  , EST ",
     "US,CHASUS33,N,Chase Bank,123 Main St,New York",
     "US,CHASUS33,Chase Bank,123 Main St,United States",
     ""}

\* a header line and the lines after it, each on a line of its own
RECURSIVE FileText(_, _)
FileText(head, lines) ==
    IF lines = <<>> THEN head
    ELSE FileText(head \o "\n" \o Head(lines), Tail(lines))

\* the files handed to the reader; a broken stream fails where its text ends
ReaderInputs ==
    {[text |-> FileText(h, ls), broken |-> FALSE] :
        h \in HeaderLines, ls \in UNION {[1..n -> DataLines] : n \in 0..MaxDataLines}}
    \cup {[text |-> "", broken |-> FALSE], [text |-> "\n", broken |-> FALSE],
          [text |-> "", broken |-> TRUE],
          [text |-> expectedHeader \o "\n", broken |-> TRUE],
          [text |-> expectedHeader \o "\n\n", broken |-> TRUE]}

\* the calls concurrent callers make: all about one code and its country
RaceCalls ==
    <<[op |-> "Create", arg |-> [bank |-> Bank(HQ1, <<>>, us, "Test Bank", TRUE)]],
      [op |-> "Delete", arg |-> [code |-> hq1]],
      [op |-> "GetByCountry", arg |-> [countryCode |-> us]]>>

\* the tables they find: the empty one, and the one after Create of that code
RaceTables ==
    {EmptyBag, Create(EmptyBag, Bank(HQ1, <<>>, us, "Test Bank", TRUE), 0).store}

\* which call each caller makes; callers are interchangeable, so the calls are
\* taken in the order of RaceCalls
Assignments ==
    {k \in [1..MaxCallers -> 1..Len(RaceCalls)] :
        \A i \in 1..(MaxCallers - 1) : k[i] <= k[i + 1]}

\* which statement of the handler the store fails: 0 is none
FailAt(n) == IF faults THEN 0..n ELSE {0}

----------------------------------------------------------------------------
(* Operations *)

Init ==
    /\ store = EmptyBag
    /\ call = [op |-> "none", arg |-> [none |-> TRUE]]
    /\ ret = [err |-> Nil, panicked |-> FALSE, value |-> NoValue]
    /\ stmts = <<>>
    /\ repoCalls = <<>>
    /\ faults = FALSE
    /\ callers = <<>>

InitFaulty ==
    /\ store = EmptyBag
    /\ call = [op |-> "none", arg |-> [none |-> TRUE]]
    /\ ret = [err |-> Nil, panicked |-> FALSE, value |-> NoValue]
    /\ stmts = <<>>
    /\ repoCalls = <<>>
    /\ faults = TRUE
    /\ callers = <<>>

\* a Repository method was called directly and ended as o
RepoStep(op, arg, o) ==
    /\ NumRows(o.store) <= MaxRows
    /\ store' = o.store
    /\ call' = [op |-> op, arg |-> arg]
    /\ ret' = [err |-> o.err, panicked |-> o.panicked, value |-> o.value]
    /\ stmts' = o.stmts
    /\ repoCalls' = <<>>
    /\ UNCHANGED <<faults, callers>>

CallCreate ==
    \E bank \in RepoBanks, f \in FailAt(2) :
        RepoStep("Create", [bank |-> bank], Create(store, bank, f))

CallCreateBatch ==
    \E banks \in BatchInputs, f \in FailAt(1) :
        RepoStep("CreateBatch", [banks |-> banks], CreateBatch(store, banks, f))

CallDelete ==
    \E code \in RepoCodes, f \in FailAt(2) :
        RepoStep("Delete", [code |-> code], Delete(store, code, f))

CallGetByCode ==
    \E code \in RepoCodes, f \in FailAt(2) :
        \E o \in GetByCode(store, code, f) : RepoStep("GetByCode", [code |-> code], o)

CallGetByCountry ==
    \E cc \in CountryInputs, f \in FailAt(2) :
        \E o \in GetByCountry(store, cc, f) : RepoStep("GetByCountry", [countryCode |-> cc], o)

\* CreateBatch called with a large batch, against a store that may fail a chunk
CallCreateLargeBatch ==
    \E n \in LoadSizes, f \in FailAt(MaxChunks) :
        \E banks \in {largeBatch(n)} : \E o \in {CreateBatch(store, banks, f)} :
            /\ NumRows(o.store) <= MaxStored
            /\ store' = o.store
            /\ call' = [op |-> "CreateBatch", arg |-> [banks |-> banks]]
            /\ ret' = [err |-> o.err, panicked |-> o.panicked, value |-> o.value]
            /\ stmts' = o.stmts
            /\ repoCalls' = <<>>
            /\ UNCHANGED <<faults, callers>>

\* a service method was called and ended as o
SvcStep(op, arg, o) ==
    /\ NumRows(o.store) <= MaxRows
    /\ store' = o.store
    /\ call' = [op |-> op, arg |-> arg]
    /\ ret' = [err |-> o.err, panicked |-> o.panicked, value |-> o.value]
    /\ stmts' = o.stmts
    /\ repoCalls' = o.calls
    /\ UNCHANGED <<faults, callers>>

CallGetSwiftCodeDetails ==
    \E code \in ServiceCodes, f \in FailAt(2) :
        \E o \in GetSwiftCodeDetails(store, code, f) :
            SvcStep("GetSwiftCodeDetails", [code |-> code], o)

CallGetSwiftCodesByCountry ==
    \E cc \in ServiceCountries, f \in FailAt(2) :
        \E o \in GetSwiftCodesByCountry(store, cc, f) :
            SvcStep("GetSwiftCodesByCountry", [countryCode |-> cc], o)

CallCreateSwiftCode ==
    \E bank \in ServiceBanks, f \in FailAt(2) :
        SvcStep("CreateSwiftCode", [bank |-> bank], CreateSwiftCode(store, bank, f))

CallDeleteSwiftCode ==
    \E code \in ServiceCodes, f \in FailAt(2) :
        SvcStep("DeleteSwiftCode", [code |-> code], DeleteSwiftCode(store, code, f))

\* CreateSwiftCode called with a nil bank
CallCreateSwiftCodeNil ==
    \E bank \in {NilBank} :
        SvcStep("CreateSwiftCode", [bank |-> bank], CreateSwiftCode(store, bank, 0))

\* a batch of records is at hand, nothing parsed yet
InitParser ==
    /\ store = EmptyBag
    /\ call \in {[op |-> "none", arg |-> [records |-> rs]] : rs \in RecordBatches}
    /\ ret = [err |-> Nil, panicked |-> FALSE, value |-> NoValue]
    /\ stmts = <<>>
    /\ repoCalls = <<>>
    /\ faults = FALSE
    /\ callers = <<>>

\* a parser was run on the batch at hand and ended as o
ParseStep(op, o) ==
    /\ call' = [op |-> op, arg |-> call.arg]
    /\ ret' = [err |-> o.err, panicked |-> FALSE, value |-> o.value]
    /\ UNCHANGED <<store, stmts, repoCalls, faults, callers>>

CallParseSwiftBanks ==
    ParseStep("ParseSwiftBanks", ParseSwiftBanks(call.arg.records))

CallParseSwiftBanksSkipping ==
    ParseStep("ParseSwiftBanksSkipping", ParseSwiftBanksSkipping(call.arg.records))

\* a file is at hand, nothing read yet
InitReader ==
    /\ store = EmptyBag
    /\ call \in {[op |-> "none", arg |-> [input |-> in]] : in \in ReaderInputs}
    /\ ret = [err |-> Nil, panicked |-> FALSE, value |-> NoValue, reads |-> 0]
    /\ stmts = <<>>
    /\ repoCalls = <<>>
    /\ faults = FALSE
    /\ callers = <<>>

\* the reader was run on the file at hand
CallLoadSwiftBanks ==
    \E o \in {LoadSwiftBanks(call.arg.input)} :
        /\ call.op = "none"
        /\ call' = [op |-> "LoadSwiftBanks", arg |-> call.arg]
        /\ ret' = [err |-> o.err, panicked |-> FALSE, value |-> o.value, reads |-> o.reads]
        /\ UNCHANGED <<store, stmts, repoCalls, faults, callers>>

\* the first statement of a Repository method
firstStatement(op) ==
    IF op = "Create" THEN "checkDuplicate"
    ELSE IF op = "Delete" THEN "checkExists"
    ELSE "getCountryName"

\* a call that has been made and has sent no statement yet
started(c) ==
    [op |-> c.op, arg |-> c.arg, pc |-> firstStatement(c.op), err |-> Nil,
     panicked |-> FALSE, value |-> NoValue, affected |-> 0, countryName |-> ""]

\* every caller has made its call, against a store that answers every statement
InitConcurrent ==
    /\ store \in RaceTables
    /\ callers \in {[p \in 1..MaxCallers |-> started(RaceCalls[k[p]])] : k \in Assignments}
    /\ call = [op |-> "none", arg |-> [none |-> TRUE]]
    /\ ret = [err |-> Nil, panicked |-> FALSE, value |-> NoValue]
    /\ stmts = <<>>
    /\ repoCalls = <<>>
    /\ faults = FALSE

\* caller p goes on as c, the table becomes s
Proceed(p, c, s) ==
    /\ callers' = [callers EXCEPT ![p] = c]
    /\ store' = s
    /\ UNCHANGED <<call, ret, stmts, repoCalls, faults>>

\* Create: the duplicate check, then the entity is normalized
StepCheckDuplicate ==
    \E p \in DOMAIN callers :
        LET c   == callers[p]
            dup == checkDuplicate(store, c.arg.bank.SwiftCode, FALSE)
        IN  /\ c.pc = "checkDuplicate"
            /\ Proceed(p, IF dup # Nil THEN [c EXCEPT !.pc = "return", !.err = dup]
                          ELSE IF slicePanics(c.arg.bank)
                          THEN [c EXCEPT !.pc = "done", !.panicked = TRUE]
                          ELSE [c EXCEPT !.pc = "insert"],
                       store)

\* Create: the INSERT
StepInsert ==
    \E p \in DOMAIN callers :
        LET c == callers[p]
            r == execInsert(store, normalized(c.arg.bank))
        IN  /\ c.pc = "insert"
            /\ Proceed(p, [c EXCEPT !.pc = "return",
                                    !.err = IF r.err # Nil
                                            THEN Wrap("trino insert failed", r.err)
                                            ELSE Nil,
                                    !.affected = r.affected],
                       r.store)

\* Delete: the existence check
StepCheckExists ==
    \E p \in DOMAIN callers :
        LET c  == callers[p]
            ex == checkExists(store, ToUpper(c.arg.code), FALSE)
        IN  /\ c.pc = "checkExists"
            /\ Proceed(p, IF ex # Nil THEN [c EXCEPT !.pc = "return", !.err = ex]
                          ELSE [c EXCEPT !.pc = "delete"],
                       store)

\* Delete: the DELETE
StepDelete ==
    \E p \in DOMAIN callers :
        LET c == callers[p]
            r == execDelete(store, ToUpper(c.arg.code))
        IN  /\ c.pc = "delete"
            /\ Proceed(p, [c EXCEPT !.pc = "return",
                                    !.err = IF r.err # Nil
                                            THEN Wrap("trino delete failed", r.err)
                                            ELSE Nil,
                                    !.affected = r.affected],
                       r.store)

\* GetByCountry: the country name query
StepGetCountryName ==
    \E p \in DOMAIN callers :
        LET c == callers[p]
        IN  /\ c.pc = "getCountryName"
            /\ \E n \in getCountryName(store, ToUpper(c.arg.countryCode), FALSE) :
                  Proceed(p, IF n.err # Nil THEN [c EXCEPT !.pc = "return", !.err = n.err]
                             ELSE [c EXCEPT !.pc = "list", !.countryName = n.name],
                          store)

\* GetByCountry: the listing query and the scan of its rows
StepList ==
    \E p \in DOMAIN callers :
        LET c  == callers[p]
            cc == ToUpper(c.arg.countryCode)
        IN  /\ c.pc = "list"
            /\ Proceed(p, [c EXCEPT !.pc = "return",
                                    !.value = [kind |-> "country", CountryISO2 |-> cc,
                                               CountryName |-> c.countryName,
                                               SwiftCodes |->
                                                   Select(store, {r \in Rows(store) :
                                                       r.CountryISOCode = cc})]],
                       store)

\* the method returns to its caller
StepReturn ==
    \E p \in DOMAIN callers :
        /\ callers[p].pc = "return"
        /\ Proceed(p, [callers[p] EXCEPT !.pc = "done"], store)

Next ==
    \/ CallCreate
    \/ CallCreateBatch
    \/ CallDelete
    \/ CallGetByCode
    \/ CallGetByCountry
    \/ CallGetSwiftCodeDetails
    \/ CallGetSwiftCodesByCountry
    \/ CallCreateSwiftCode
    \/ CallDeleteSwiftCode

\* Create and Delete alone, one call after the other
NextCreateDelete ==
    \/ CallCreate
    \/ CallDelete

\* every operation, against a store that answers every statement
Spec == Init /\ [][Next]_vars

\* the service alone
NextService ==
    \/ CallGetSwiftCodeDetails
    \/ CallGetSwiftCodesByCountry
    \/ CallCreateSwiftCode
    \/ CallDeleteSwiftCode

\* the service, against a store that may fail any statement
SpecServiceFaulty == InitFaulty /\ [][NextService]_vars

\* sequential Create and Delete from the empty table
SpecCreateDelete == Init /\ [][NextCreateDelete]_vars

NextParser ==
    \/ CallParseSwiftBanks
    \/ CallParseSwiftBanksSkipping

\* the parsers run on a batch of records
SpecParser == InitParser /\ [][NextParser]_vars

NextBatch ==
    \/ CallCreateLargeBatch

\* large batches, one load after the other, against a store that may fail a chunk
SpecBatch == InitFaulty /\ [][NextBatch]_vars

NextReader ==
    \/ CallLoadSwiftBanks

\* the reader run on a file
SpecReader == InitReader /\ [][NextReader]_vars

\* the service called directly, a nil bank included
NextServiceDirect ==
    \/ CallGetSwiftCodeDetails
    \/ CallGetSwiftCodesByCountry
    \/ CallCreateSwiftCode
    \/ CallCreateSwiftCodeNil
    \/ CallDeleteSwiftCode

SpecServiceDirect == Init /\ [][NextServiceDirect]_vars

\* the statements of concurrent callers, in any order
NextConcurrent ==
    \/ StepCheckDuplicate
    \/ StepInsert
    \/ StepCheckExists
    \/ StepDelete
    \/ StepGetCountryName
    \/ StepList
    \/ StepReturn

\* concurrent Create, Delete and GetByCountry calls, each statement a step
SpecConcurrent == InitConcurrent /\ [][NextConcurrent]_vars

----------------------------------------------------------------------------
(* Properties *)

Base8(code) == Prefix(ToUpper(code), 8)

Letters == {Lower[i] : i \in 1..Len(Lower)} \cup UpperSet

\* the BIC pattern: 4-letter institution, 2-letter country, 2 alphanumeric
\* location characters, an optional 3 alphanumeric branch characters
BICPattern(code) ==
    /\ Len(code) = 8 \/ Len(code) = 11
    /\ \A i \in 1..Len(code) :
          IF i <= 6 THEN code[i] \in UpperSet ELSE code[i] \in UpperSet \cup Digits

TwoLetters(cc) == Len(cc) = 2 /\ cc[1] \in Letters /\ cc[2] \in Letters

\* C1: from the empty table, after any sequence of sequential Create and Delete
\* calls, no two stored rows have the same swift_code (compared uppercased).
C1_SwiftCodeUnique ==
    \A r \in Rows(store) :
        /\ store[r] = 1
        /\ \A q \in Rows(store) :
              ToUpper(q.SwiftCode) = ToUpper(r.SwiftCode) => q = r

\* a Create of a stored code, written in lowercase, was refused with rows stored
C1_Witness ==
    /\ call.op = "Create"
    /\ call.arg.bank.SwiftCode = hq1
    /\ ret.err = RepoErrDuplicate
    /\ NumRows(store) >= 2

\* C2: GetByCode on a present code returns as Branches exactly the stored rows
\* with the found row's swift_code_base and is_headquarter = false when the found
\* row is a headquarters, and no branches, with no branch query sent, when it is
\* not; the found row and rows of another base are never among the Branches.
C2_BranchesOfHeadquarters ==
    (call.op = "GetByCode" /\ ret.err = Nil /\ ~ret.panicked) =>
        LET found    == ret.value.Bank
            branches == ret.value.Branches
        IN  /\ found \in RowsByCode(store, ToUpper(call.arg.code))
            /\ found.IsHeadquarter =>
                  /\ DOMAIN branches =
                        {r \in Rows(store) : /\ r.SwiftCodeBase = found.SwiftCodeBase
                                             /\ ~r.IsHeadquarter}
                  /\ \A r \in DOMAIN branches : branches[r] = store[r]
                  /\ Len(stmts) = 2
            /\ ~found.IsHeadquarter => branches = EmptyBag /\ Len(stmts) = 1
            /\ found \notin DOMAIN branches
            /\ \A r \in DOMAIN branches : r.SwiftCodeBase = found.SwiftCodeBase

\* a headquarters was found with a branch, while a row of another base is stored
C2_Witness ==
    /\ call.op = "GetByCode"
    /\ ret.err = Nil
    /\ ret.value.kind = "detail"
    /\ ret.value.Bank.IsHeadquarter
    /\ ret.value.Branches # EmptyBag
    /\ \E r \in Rows(store) :
          ~r.IsHeadquarter /\ r.SwiftCodeBase # ret.value.Bank.SwiftCodeBase

\* C3: Create of an entity whose uppercased swift_code is the swift_code of a
\* stored row returns ErrDuplicate, sends no INSERT and leaves the table as it
\* was, also when the code is given in lowercase.
C3_DuplicateCreateRefused ==
    [][ (call'.op = "Create" /\ RowsByCode(store, ToUpper(call'.arg.bank.SwiftCode)) # {})
            => /\ ret'.err = RepoErrDuplicate
               /\ ~ret'.panicked
               /\ store' = store
               /\ \A i \in 1..Len(stmts') : stmts'[i].sql # "INSERT" ]_vars

\* a lowercase code whose uppercase form is stored was refused
C3_Witness ==
    /\ call.op = "Create"
    /\ call.arg.bank.SwiftCode = hq1
    /\ ret.err = RepoErrDuplicate
    /\ HQ1 \in {r.SwiftCode : r \in Rows(store)}

\* C4: Delete of a present code succeeds and removes the rows with that
\* uppercased swift_code and nothing else; a Delete of the same code right after
\* returns ErrNotFound and leaves the table as it was.
C4_DeleteRemovesThatCode ==
    [][ call'.op = "Delete" =>
          LET code == ToUpper(call'.arg.code)
          IN  /\ RowsByCode(store, code) # {} =>
                    /\ ret'.err = Nil
                    /\ ~ret'.panicked
                    /\ RowsByCode(store', code) = {}
                    /\ Rows(store') = Rows(store) \ RowsByCode(store, code)
                    /\ \A r \in Rows(store') : store'[r] = store[r]
              /\ (call.op = "Delete" /\ ret.err = Nil /\ ToUpper(call.arg.code) = code) =>
                    /\ ret'.err = RepoErrNotFound
                    /\ store' = store ]_vars

\* a code given in lowercase was deleted and other rows are still stored
C4_Witness ==
    /\ call.op = "Delete"
    /\ call.arg.code = hq1
    /\ ret.err = Nil
    /\ RowsByCode(store, HQ1) = {}
    /\ NumRows(store) >= 1

\* C5: GetByCountry(cc) returns ErrNotFound exactly when no stored row has
\* country_iso_code = uppercase(cc); otherwise it returns exactly the stored rows
\* of that country, with CountryISO2 = uppercase(cc).
C5_CountryListing ==
    call.op = "GetByCountry" =>
        LET cc    == ToUpper(call.arg.countryCode)
            match == {r \in Rows(store) : r.CountryISOCode = cc}
        IN  /\ ~ret.panicked
            /\ ret.err = RepoErrNotFound <=> match = {}
            /\ match # {} =>
                  /\ ret.err = Nil
                  /\ ret.value.CountryISO2 = cc
                  /\ DOMAIN ret.value.SwiftCodes = match
                  /\ \A r \in match : ret.value.SwiftCodes[r] = store[r]

\* a lowercase country code listed its rows while another country's row is stored
C5_Witness ==
    /\ call.op = "GetByCountry"
    /\ call.arg.countryCode = us
    /\ ret.err = Nil
    /\ ret.value.kind = "country"
    /\ ret.value.SwiftCodes # EmptyBag
    /\ \E r \in Rows(store) : r.CountryISOCode = PL

\* a service request the validation must refuse
InvalidRequest(c) ==
    \/ /\ c.op \in {"GetSwiftCodeDetails", "DeleteSwiftCode"}
       /\ ~BICPattern(ToUpper(c.arg.code))
    \/ /\ c.op = "GetSwiftCodesByCountry"
       /\ ~TwoLetters(c.arg.countryCode)
    \/ /\ c.op = "CreateSwiftCode"
       /\ \/ ~BICPattern(ToUpper(c.arg.bank.SwiftCode))
          \/ ~TwoLetters(c.arg.bank.CountryISOCode)
          \/ c.arg.bank.BankName = ""

\* C6: every service operation called with a swift code that does not match the
\* BIC pattern after uppercasing, a country code that is not two letters, or (for
\* create) an empty bank name returns ErrInvalidInput without any Repository
\* call, and the table is as it was.
C6_InvalidInputShortCircuits ==
    [][ InvalidRequest(call')
            => /\ ret'.err = ErrInvalidInput
               /\ ~ret'.panicked
               /\ repoCalls' = <<>>
               /\ stmts' = <<>>
               /\ store' = store ]_vars

\* a create with an empty bank name was refused while rows are stored
C6_Witness ==
    /\ call.op = "CreateSwiftCode"
    /\ call.arg.bank.BankName = ""
    /\ ret.err = ErrInvalidInput
    /\ repoCalls = <<>>
    /\ store # EmptyBag

ServiceOps ==
    {"GetSwiftCodeDetails", "GetSwiftCodesByCountry", "CreateSwiftCode", "DeleteSwiftCode"}

\* the service error for a Repository error
Translated(fn, err) ==
    IF fn = "Create" /\ err = RepoErrDuplicate THEN ErrAlreadyExists
    ELSE IF fn \in {"GetByCode", "GetByCountry", "Delete"} /\ err = RepoErrNotFound
    THEN ErrNotFound
    ELSE err

\* C7: the service turns ErrDuplicate from Create into ErrAlreadyExists and
\* ErrNotFound from GetByCode, GetByCountry or Delete into its own ErrNotFound,
\* returns any other Repository error unchanged, and success as success.
C7_ErrorTranslation ==
    call.op \in ServiceOps =>
        /\ Len(repoCalls) <= 1
        /\ Len(repoCalls) = 1 =>
              /\ ret.err = Translated(repoCalls[1].fn, repoCalls[1].err)
              /\ repoCalls[1].err = Nil <=> ret.err = Nil

\* a Delete that the Repository answered with ErrNotFound
C7_Witness ==
    /\ call.op = "DeleteSwiftCode"
    /\ Len(repoCalls) = 1
    /\ repoCalls[1].err = RepoErrNotFound
    /\ ret.err = ErrNotFound

\* C8: for every entity CreateSwiftCode accepts, the entity handed to
\* Repository.Create, and the row inserted, has swift_code_base = the first 8
\* characters of its uppercased swift_code, whatever base the caller supplied.
C8_BaseIsFirstEight ==
    (call.op = "CreateSwiftCode" /\ Len(repoCalls) = 1) =>
        /\ repoCalls[1].arg.bank.SwiftCodeBase = Base8(call.arg.bank.SwiftCode)
        /\ \A i \in 1..Len(stmts) :
              stmts[i].sql = "INSERT" =>
                  \A j \in 1..Len(stmts[i].rows) :
                      stmts[i].rows[j].SwiftCodeBase = Base8(call.arg.bank.SwiftCode)

\* C9: every row written by Create or CreateBatch has is_headquarter = true
\* exactly when its swift_code ends with "XXX", whatever the caller supplied.
C9_HeadquarterFlagDerived ==
    call.op \in {"Create", "CreateBatch"} =>
        \A i \in 1..Len(stmts) :
            stmts[i].sql = "INSERT" =>
                \A j \in 1..Len(stmts[i].rows) :
                    stmts[i].rows[j].IsHeadquarter
                        <=> HasSuffix(stmts[i].rows[j].SwiftCode, XXX)

\* C10: in every table reachable by Create, CreateBatch and Delete calls, at
\* most one row per swift_code_base has is_headquarter = true.
C10_OneHeadquartersPerBase ==
    \A r \in Rows(store) :
        r.IsHeadquarter =>
            /\ store[r] = 1
            /\ \A q \in Rows(store) :
                  (q.IsHeadquarter /\ q.SwiftCodeBase = r.SwiftCodeBase) => q = r

\* the row an INSERT carries for entity b: the entity with its code uppercased
RowOf(row, b) ==
    /\ row.SwiftCode = ToUpper(b.SwiftCode)
    /\ row.BankName = b.BankName
    /\ row.Address = b.Address
    /\ row.IsHeadquarter = b.IsHeadquarter

\* how often row r is among the first n of rows
Occurrences(rows, n, r) == Cardinality({i \in 1..n : rows[i] = r})

\* C11: a CreateBatch of n entities that no statement fails sends exactly
\* ceil(n/100) INSERT statements, the k-th carrying entities 100(k-1)+1 ..
\* min(100k, n) in input order; with n = 0 it sends none and returns success.
C11_ChunksInInputOrder ==
    call.op = "CreateBatch" =>
        LET banks == call.arg.banks
            n     == Len(banks)
        IN  /\ n = 0 => (ret.err = Nil /\ ~ret.panicked /\ stmts = <<>>)
            /\ (ret.err = Nil /\ ~ret.panicked) =>
                  /\ Len(stmts) = (n + 99) \div 100
                  /\ \A k \in 1..Len(stmts) :
                        /\ stmts[k].sql = "INSERT"
                        /\ Len(stmts[k].rows) = min(100 * k, n) - 100 * (k - 1)
                        /\ \A j \in 1..Len(stmts[k].rows) :
                              RowOf(stmts[k].rows[j], banks[100 * (k - 1) + j])

\* a batch was split into three statements, the last one not full
C11_Witness ==
    /\ call.op = "CreateBatch"
    /\ ret.err = Nil
    /\ Len(stmts) = 3
    /\ Len(stmts[3].rows) < 100
    /\ Len(stmts[1].rows) = 100

\* C12: when the INSERT of chunk k fails, CreateBatch returns an error, the
\* statement of chunk k is the last one sent, and the table has gained exactly
\* the rows of chunks 1..k-1: none of chunk k or of a later chunk.
C12_FailedChunkAborts ==
    [][ (call'.op = "CreateBatch" /\ ret'.err # Nil) =>
          LET banks == call'.arg.banks
              k     == Len(stmts')
              done  == 100 * (k - 1)
              sent  == [i \in 1..done |-> stmts'[((i - 1) \div 100) + 1].rows[((i - 1) % 100) + 1]]
          IN  /\ ~ret'.panicked
              /\ k >= 1
              /\ done < Len(banks)
              /\ \A i \in 1..done : RowOf(sent[i], banks[i])
              /\ NumRows(store') = NumRows(store) + done
              /\ \A r \in Rows(store') :
                    store'[r] = CopiesIn(r, store) + Occurrences(sent, done, r) ]_vars

\* the second chunk of a batch failed after the first was inserted
C12_Witness ==
    /\ call.op = "CreateBatch"
    /\ ret.err # Nil
    /\ Len(stmts) = 2
    /\ Len(call.arg.banks) > 200
    /\ NumRows(store) >= 100

\* C13: a failed CreateBatch hands the caller the number of rows it committed
\* and the number requested, and the committed count is the number of rows the
\* call added to the table.
C13_CommittedCountReported ==
    [][ (call'.op = "CreateBatch" /\ ret'.err # Nil) =>
          /\ ret'.value.kind = "batch"
          /\ ret'.value.committed = NumRows(store') - NumRows(store)
          /\ ret'.value.total = Len(call'.arg.banks) ]_vars

\* C14: a CreateBatch whose codes are all stored already adds no row.
C14_RerunAddsNoRow ==
    [][ (/\ call'.op = "CreateBatch"
         /\ \A i \in 1..Len(call'.arg.banks) :
               RowsByCode(store, ToUpper(call'.arg.banks[i].SwiftCode)) # {})
            => store' = store ]_vars


ParseOps == {"ParseSwiftBanks", "ParseSwiftBanksSkipping"}

\* a record that satisfies every validation rule
ValidRecord(r) ==
    /\ r.SwiftCode # <<>> /\ BICPattern(r.SwiftCode) /\ Len(r.SwiftCode) <= 15
    /\ r.BankName # "" /\ Len(r.BankName) <= 100
    /\ r.CountryISOCode # <<>> /\ Len(r.CountryISOCode) = 2
    /\ \A i \in 1..Len(r.CountryISOCode) : r.CountryISOCode[i] \in UpperSet
    /\ r.Address # "" /\ Len(r.Address) <= 200
    /\ r.CountryName # "" /\ Len(r.CountryName) <= 100

\* the records of a batch that satisfy every rule, in input order
ValidOnes(records) == SelectSeq(records, ValidRecord)

\* the places of a batch whose record breaks a rule
InvalidAt(records) == {i \in 1..Len(records) : ~ValidRecord(records[i])}

\* entity e was produced from record r
EntityOf(e, r) ==
    /\ e.SwiftCode = r.SwiftCode
    /\ e.CountryISOCode = r.CountryISOCode
    /\ e.BankName = r.BankName
    /\ e.Address = r.Address
    /\ e.CountryName = r.CountryName

\* C15: every entity a parse outputs comes from an accepted record with
\* swift_code, country_iso_code, bank_name, address and country_name unchanged,
\* swift_code_base = the first 8 characters of swift_code and is_headquarter =
\* (swift_code ends with "XXX").
C15_EntityOfAcceptedRecord ==
    (call.op \in ParseOps /\ ret.err = Nil) =>
        LET accepted == ValidOnes(call.arg.records)
            banks    == ret.value.banks
        IN  /\ Len(banks) = Len(accepted)
            /\ \A i \in 1..Len(banks) :
                  /\ EntityOf(banks[i], accepted[i])
                  /\ banks[i].SwiftCodeBase = SubSeq(accepted[i].SwiftCode, 1, 8)
                  /\ banks[i].IsHeadquarter
                        <=> SubSeq(accepted[i].SwiftCode, Len(accepted[i].SwiftCode) - 2,
                                   Len(accepted[i].SwiftCode)) = <<"X","X","X">>

\* a headquarters and a branch were parsed from one batch
C15_Witness ==
    /\ call.op = "ParseSwiftBanks"
    /\ ret.err = Nil
    /\ ret.value.kind = "banks"
    /\ \E i, j \in 1..Len(ret.value.banks) :
          /\ ret.value.banks[i].IsHeadquarter
          /\ ~ret.value.banks[j].IsHeadquarter
          /\ Len(ret.value.banks[j].SwiftCode) = 11

\* C16: no parse outputs an entity whose swift_code has fewer than 8 characters
\* or whose swift_code_base is not 8 characters long: a batch holding a record
\* with a shorter code is refused by the strict parser, and the record is left
\* out by the skipping one.
C16_ShortCodeRejected ==
    call.op \in ParseOps =>
        LET records == call.arg.records
            short   == {i \in 1..Len(records) : Len(records[i].SwiftCode) < 8}
        IN  /\ ret.err = Nil =>
                  /\ \A i \in 1..Len(ret.value.banks) :
                        /\ Len(ret.value.banks[i].SwiftCode) >= 8
                        /\ Len(ret.value.banks[i].SwiftCodeBase) = 8
                  /\ Len(ret.value.banks) <= Len(records) - Cardinality(short)
            /\ (call.op = "ParseSwiftBanks" /\ short # {}) => ret.err # Nil

\* a batch with a 7-character code was parsed and the other records came out
C16_Witness ==
    /\ call.op = "ParseSwiftBanksSkipping"
    /\ \E i \in 1..Len(call.arg.records) : Len(call.arg.records[i].SwiftCode) = 7
    /\ ret.err = Nil
    /\ ret.value.kind = "banks"
    /\ ret.value.banks # <<>>

C18_InvalidRecordsSkipped ==
    call.op \in ParseOps =>
        /\ ret.err = Nil
        /\ ret.value.kind = "banks"
        /\ Len(ret.value.banks) = Len(ValidOnes(call.arg.records))
        /\ \A i \in 1..Len(ret.value.banks) :
              EntityOf(ret.value.banks[i], ValidOnes(call.arg.records)[i])

\* C19: the skipping parser returns an error for a batch without any valid record.
C19_NoValidRecordsIsError ==
    (call.op = "ParseSwiftBanksSkipping" /\ ValidOnes(call.arg.records) = <<>>)
        => ret.err # Nil

\* C19 as amended: the skipping parser returns success with no entity for a
\* batch without any valid record, the empty batch included.
C19_NoValidRecordsIsEmptySuccess ==
    (call.op = "ParseSwiftBanksSkipping" /\ ValidOnes(call.arg.records) = <<>>)
        => /\ ret.err = Nil
           /\ ret.value.kind = "banks"
           /\ ret.value.banks = <<>>

\* a batch of two invalid records was parsed by the skipping parser
C19_Witness ==
    /\ call.op = "ParseSwiftBanksSkipping"
    /\ Len(call.arg.records) = 2
    /\ InvalidAt(call.arg.records) = {1, 2}
    /\ ret.err = Nil

\* C20: the entities of one successful parse never hold the same swift_code twice.
C20_NoDuplicateCodeInOutput ==
    (call.op \in ParseOps /\ ret.err = Nil) =>
        \A i, j \in 1..Len(ret.value.banks) :
            ret.value.banks[i].SwiftCode = ret.value.banks[j].SwiftCode => i = j

\* the header of a file: the fields of its first non-empty line
HeaderOf(input) == csvRecords(input)[1].fields

HasHeader(input) == csvRecords(input) # <<>>

ExpectedColumns ==
    <<"COUNTRY ISO2 CODE", "SWIFT CODE", "CODE TYPE", "NAME", "ADDRESS", "TOWN NAME",
      "COUNTRY NAME", "TIME ZONE">>

\* the header is the 8 expected columns in order, whatever its case and spacing
HeaderMatches(header) ==
    /\ Len(header) = 8
    /\ \A i \in 1..8 : Str(TrimSpace(ToUpper(header[i]))) = ExpectedColumns[i]

\* err is one of the two header mismatch errors
IsHeaderError(err) ==
    /\ Len(err) = 1
    /\ Len(err[1]) >= 14
    /\ SubSeq(err[1], 1, 14) = "invalid header"

\* C21: whenever the header of the file, compared in upper case and trimmed
\* column by column, is not the 8 expected columns in order, LoadSwiftBanks
\* fails with a header error after reading the header only (no data row is
\* read) and returns no records.
C21_HeaderMismatchRejected ==
    (/\ call.op = "LoadSwiftBanks"
     /\ HasHeader(call.arg.input)
     /\ ~HeaderMatches(HeaderOf(call.arg.input)))
        => /\ IsHeaderError(ret.err)
           /\ ret.value = NoValue
           /\ ret.reads = 1

\* a header of 8 columns with one wrong name was refused, two lines after it
C21_Witness ==
    /\ call.op = "LoadSwiftBanks"
    /\ Len(csvRecords(call.arg.input)) = 3
    /\ Len(HeaderOf(call.arg.input)) = 8
    /\ ~HeaderMatches(HeaderOf(call.arg.input))
    /\ IsHeaderError(ret.err)
    /\ ret.reads = 1

\* the data rows of a file: the fields of its non-empty lines after the header
DataRows(input) == Tail(csvRecords(input))

\* record rec holds the five mapped fields of data row fields, trimmed
RecordOfRow(rec, fields) ==
    /\ rec.CountryISOCode = TrimSpace(fields[1])
    /\ rec.SwiftCode = TrimSpace(fields[2])
    /\ rec.BankName = Str(TrimSpace(fields[4]))
    /\ rec.Address = Str(TrimSpace(fields[5]))
    /\ rec.CountryName = Str(TrimSpace(fields[7]))

\* err is an invalid-length error of row k: the reader's own, or the one of
\* encoding/csv wrapped with the row
IsRowLengthError(err, k) ==
    \/ err = <<"row " \o ToString(k) \o ": invalid length">>
    \/ /\ Len(err) = 3
       /\ err[1] = "row " \o ToString(k)
       /\ <<err[3]>> = ErrFieldCount

\* C22: for a file with a valid header and n data rows, LoadSwiftBanks returns
\* n records in input order with Index 1..n when every row has the 8 fields of
\* the header, and otherwise fails with an invalid-length error of the first
\* row that has not, returning no records.
C22_RowsBecomeRecords ==
    (/\ call.op = "LoadSwiftBanks"
     /\ ~call.arg.input.broken
     /\ HasHeader(call.arg.input)
     /\ HeaderMatches(HeaderOf(call.arg.input)))
        => LET rows == DataRows(call.arg.input)
               odd  == {k \in 1..Len(rows) : Len(rows[k].fields) # 8}
           IN  /\ odd = {} =>
                     /\ ret.err = Nil
                     /\ ret.value.kind = "records"
                     /\ Len(ret.value.records) = Len(rows)
                     /\ \A k \in 1..Len(rows) :
                           /\ ret.value.records[k].Index = k
                           /\ RecordOfRow(ret.value.records[k], rows[k].fields)
               /\ odd # {} =>
                     /\ ret.value = NoValue
                     /\ IsRowLengthError(ret.err,
                                         CHOOSE k \in odd : \A j \in odd : k <= j)

\* C23: on a zero-byte input LoadSwiftBanks returns io.EOF and no records; on
\* an input that holds a valid header only it returns no error and an empty
\* sequence of records.
C23_EmptyInputIsEOF ==
    (call.op = "LoadSwiftBanks" /\ ~call.arg.input.broken) =>
        /\ call.arg.input.text = "" =>
              /\ ret.err = EOF
              /\ ret.value = NoValue \/ ret.value.records = <<>>
        /\ (/\ Len(csvRecords(call.arg.input)) = 1
            /\ HeaderMatches(HeaderOf(call.arg.input))) =>
              /\ ret.err = Nil
              /\ ret.value.kind = "records"
              /\ ret.value.records = <<>>

\* s holds a lowercase letter
HasLower(s) == \E i \in 1..Len(s) : \E j \in 1..Len(Lower) : s[i] = Lower[j]

\* C24: for every well-formed code, in any letter case, CreateSwiftCode and
\* DeleteSwiftCode hand the Repository the uppercased code (and, for create,
\* the uppercased country code): the argument of Repository.Create and
\* Repository.Delete never holds a lowercase letter.
C24_RepositoryGetsUppercase ==
    (call.op \in {"CreateSwiftCode", "DeleteSwiftCode"} /\ Len(repoCalls) = 1) =>
        IF call.op = "CreateSwiftCode"
        THEN /\ repoCalls[1].arg.bank.SwiftCode = ToUpper(call.arg.bank.SwiftCode)
             /\ repoCalls[1].arg.bank.CountryISOCode = ToUpper(call.arg.bank.CountryISOCode)
             /\ ~HasLower(repoCalls[1].arg.bank.SwiftCode)
             /\ ~HasLower(repoCalls[1].arg.bank.CountryISOCode)
        ELSE /\ repoCalls[1].arg.code = ToUpper(call.arg.code)
             /\ ~HasLower(repoCalls[1].arg.code)

\* C25: CreateSwiftCode called with a nil bank returns ErrInvalidInput, makes
\* no Repository call and does not panic.
C25_NilBankRejected ==
    (call.op = "CreateSwiftCode" /\ call.arg.bank = NilBank) =>
        /\ ~ret.panicked
        /\ ret.err = ErrInvalidInput
        /\ repoCalls = <<>>
        /\ stmts = <<>>

\* C26: GetSwiftCodeDetails of a well-formed code returns ErrNotFound when no
\* stored row has swift_code equal to the uppercased code, and otherwise a
\* stored row whose swift_code is exactly the uppercased code, never a row that
\* only shares its prefix or its base.
C26_ExactCodeOrNotFound ==
    (call.op = "GetSwiftCodeDetails" /\ BICPattern(ToUpper(call.arg.code))) =>
        LET code  == ToUpper(call.arg.code)
            match == {r \in Rows(store) : r.SwiftCode = code}
        IN  /\ ~ret.panicked
            /\ match = {} => (ret.err = ErrNotFound /\ ret.value = NoValue)
            /\ match # {} => (ret.err = Nil /\ ret.value.Bank \in match)

\* an 8-character code was not found while a row of that base, whose code
\* begins with it, is stored
C26_Witness ==
    /\ call.op = "GetSwiftCodeDetails"
    /\ call.arg.code = B8
    /\ ret.err = ErrNotFound
    /\ \E r \in Rows(store) :
          /\ r.SwiftCodeBase = B8
          /\ Len(r.SwiftCode) = 11
          /\ SubSeq(r.SwiftCode, 1, 8) = B8

\* the swift code a Create or Delete call is about
CodeOf(c) ==
    ToUpper(IF c.op = "Create" THEN c.arg.bank.SwiftCode
            ELSE IF c.op = "Delete" THEN c.arg.code
            ELSE <<>>)

\* the method of caller c is returning or has returned
Returning(c) == c.pc \in {"return", "done"}

\* the stored rows with swift_code = code, counted with their copies
CopiesOfCode(s, code) == BagCardinality(Select(s, RowsByCode(s, code)))

\* C27: two concurrent Create calls for one code that both passed
\* checkDuplicate both execute their INSERT and both return success, since the
\* table enforces no uniqueness; unless a Delete removed rows meanwhile, the
\* table then holds two rows with that swift_code.
C27_RacingCreatesBothInsert ==
    \A p, q \in DOMAIN callers :
        (/\ p # q
         /\ callers[p].op = "Create" /\ callers[q].op = "Create"
         /\ CodeOf(callers[p]) = CodeOf(callers[q])
         /\ Returning(callers[p]) /\ Returning(callers[q])
         /\ callers[p].err # RepoErrDuplicate /\ callers[q].err # RepoErrDuplicate)
            => /\ callers[p].err = Nil /\ callers[q].err = Nil
               /\ ~callers[p].panicked /\ ~callers[q].panicked
               /\ callers[p].affected = 1 /\ callers[q].affected = 1
               /\ (\A d \in DOMAIN callers :
                       (callers[d].op = "Delete"
                          /\ CodeOf(callers[d]) = CodeOf(callers[p]))
                            => callers[d].affected = 0)
                     => CopiesOfCode(store, CodeOf(callers[p])) >= 2

\* two Create calls of one code have both returned success and the table holds
\* two rows with that code, while no Delete has removed a row
C27_Witness ==
    \E p, q \in DOMAIN callers :
        /\ p # q
        /\ callers[p].op = "Create" /\ callers[q].op = "Create"
        /\ CodeOf(callers[p]) = CodeOf(callers[q])
        /\ callers[p].pc = "done" /\ callers[q].pc = "done"
        /\ callers[p].err = Nil /\ callers[q].err = Nil
        /\ callers[p].affected = 1 /\ callers[q].affected = 1
        /\ CopiesOfCode(store, CodeOf(callers[p])) = 2
        /\ \A d \in DOMAIN callers : callers[d].op = "Delete" => callers[d].affected = 0

\* C28: a Delete that passed checkExists returns success whether or not its
\* DELETE removed a row, and a Delete whose checkExists found no row returns
\* ErrNotFound without a DELETE, whatever the table holds when it returns.
C28_DeleteTrustsItsCheck ==
    \A p \in DOMAIN callers :
        (callers[p].op = "Delete" /\ Returning(callers[p])) =>
            /\ ~callers[p].panicked
            /\ callers[p].err # RepoErrNotFound => callers[p].err = Nil
            /\ callers[p].err = RepoErrNotFound => callers[p].affected = 0

\* two Delete calls of one code have both returned success although only one
\* of them removed a row, and a third Delete is returning ErrNotFound while a
\* row with the code, inserted by a concurrent Create, is stored
C28_Witness ==
    \E a, b, d, c \in DOMAIN callers :
        /\ a # b /\ a # d /\ b # d
        /\ callers[a].op = "Delete" /\ callers[b].op = "Delete"
        /\ callers[d].op = "Delete" /\ callers[c].op = "Create"
        /\ CodeOf(callers[a]) = CodeOf(callers[b])
        /\ CodeOf(callers[d]) = CodeOf(callers[c])
        /\ callers[a].pc = "done" /\ callers[a].err = Nil /\ callers[a].affected = 1
        /\ callers[b].pc = "done" /\ callers[b].err = Nil /\ callers[b].affected = 0
        /\ callers[d].pc = "return" /\ callers[d].err = RepoErrNotFound
        /\ Returning(callers[c]) /\ callers[c].err = Nil /\ callers[c].affected = 1
        /\ RowsByCode(store, CodeOf(callers[d])) # {}

\* C29: whatever Delete calls run concurrently, GetByCountry never returns
\* success with an empty list of entities: when no row of the country is left
\* as its listing query runs, it returns ErrNotFound.
C29_ListingNeverEmpty ==
    \A p \in DOMAIN callers :
        (/\ callers[p].op = "GetByCountry"
         /\ Returning(callers[p])
         /\ callers[p].err = Nil)
            => /\ callers[p].value.kind = "country"
               /\ callers[p].value.SwiftCodes # EmptyBag

\* the entity has a code too short for a base and carries no base
ShortWithoutBase(bank) == Len(bank.SwiftCode) < 8 /\ bank.SwiftCodeBase = <<>>

\* C30: Create and CreateBatch called with an entity whose swift_code has fewer
\* than 8 characters and whose swift_code_base is empty return an error and
\* insert nothing: no out-of-bounds failure, no row with a truncated base.
C30_ShortCodeIsAnError ==
    /\ (call.op = "Create" /\ ShortWithoutBase(call.arg.bank)) =>
          /\ ~ret.panicked
          /\ ret.err # Nil
          /\ \A i \in 1..Len(stmts) : stmts[i].sql # "INSERT"
    /\ (call.op = "CreateBatch"
          /\ \E j \in 1..Len(call.arg.banks) : ShortWithoutBase(call.arg.banks[j])) =>
          /\ ~ret.panicked
          /\ ret.err # Nil
          /\ \A i \in 1..Len(stmts) :
                stmts[i].sql = "INSERT" =>
                    \A j \in 1..Len(stmts[i].rows) : Len(stmts[i].rows[j].SwiftCode) >= 8


====
